---------------------------- MODULE Spec2Model ----------------------------
(* Model of knight_tour.py: the notation helpers (is_valid, to_algebraic,  *)
(* from_algebraic), KnightPathFinder.find_shortest_paths as a state        *)
(* machine with one step per iteration of its while loop, and the part of  *)
(* main that parses the two positions, runs the search and prints it.      *)
(*                                                                         *)
(* Three specifications share the variables:                               *)
(*   Spec          find_shortest_paths called with board squares           *)
(*   SpecMain      main: two position strings, parsed, searched, printed   *)
(*   SpecNotation  to_algebraic followed by from_algebraic                 *)
EXTENDS Integers, Sequences, FiniteSets

VARIABLES
    pc,              \* position in find_shortest_paths: "idle", "loop", "returned"
    start, end,      \* the arguments of find_shortest_paths (main's locals too)
    queue,           \* deque of (current, path) entries
    shortest_paths,  \* list of paths
    visited,         \* defaultdict: square -> recorded length
    min_length,      \* length of the shortest path found, or float('inf')
    placed,          \* history: the set of paths ever put in the queue
    n_placed,        \* history: the number of entries ever put in the queue
    main_pc,         \* position in main: "none", "validate", "invalid", "find",
                     \*   "report", "done"
    args_start,      \* args.start, a string
    args_end,        \* args.end, a string
    printed,         \* what main prints: per path, its squares in notation
    n_pc,            \* position in the notation round trip
    n_square,        \* the square given to to_algebraic
    n_text,          \* the string to_algebraic returned
    n_parsed         \* the outcome of from_algebraic on it

searchVars == <<pc, start, end, queue, shortest_paths, visited, min_length,
                placed, n_placed>>
mainVars == <<main_pc, args_start, args_end, printed>>
notationVars == <<n_pc, n_square, n_text, n_parsed>>
vars == <<searchVars, mainVars, notationVars>>

-----------------------------------------------------------------------------
(* Bounds of the model.                                                    *)

\* find_shortest_paths is called with start rows 0..MaxStartRow
MaxStartRow == 3
\* ... and start columns 0..MaxStartCol (see StartSquares); the end square is
\* any board square
MaxStartCol == 3
\* the position strings main receives have at most MaxTokenLen characters
MaxTokenLen == 2
\* to_algebraic is given coordinates up to NotationMargin outside the board
NotationMargin == 2

-----------------------------------------------------------------------------
(* Values.                                                                 *)

\* The side of the chessboard in is_valid.
BoardSize == 8

\* The squares of the board: (row, column) pairs.
Board == (0 .. BoardSize - 1) \X (0 .. BoardSize - 1)

\* The start squares of the calls: within the bounds, one square of each pair
\* that the reflection in the board's diagonal maps to each other. With
\* MaxStartRow = MaxStartCol = 3 every square of the board is the image of
\* one of them under a rotation or reflection of the board.
StartSquares ==
    { s \in (0 .. MaxStartRow) \X (0 .. MaxStartCol) : s[1] <= s[2] } \cap Board

\* A placeholder for a square or a string not set yet.
NoSquare == <<>>
NoText == <<>>

\* float('inf') is <<>>, a finite length n is <<n>>.
Inf == <<>>
Fin(n) == <<n>>

\* n < e, n <= e, n > e, n = e for an integer n and e finite or infinite
LtExt(n, e) == e = Inf \/ n < e[1]
LeExt(n, e) == e = Inf \/ n <= e[1]
GtExt(n, e) == e # Inf /\ n > e[1]
EqExt(n, e) == e # Inf /\ n = e[1]

\* defaultdict(lambda: float('inf')): the keys written so far, inf otherwise
EmptyDict == [k \in {} |-> Inf]
Lookup(d, k) == IF k \in DOMAIN d THEN d[k] ELSE Inf
Store(d, k, v) == [x \in DOMAIN d \cup {k} |-> IF x = k THEN v ELSE d[x]]

\* Strings are sequences of character codes.
Ord_a == 97
Ord_0 == 48
Ord_minus == 45
IsDigit(c) == Ord_0 <= c /\ c <= Ord_0 + 9

\* The characters the position strings are made of: a i 0 1 9
Alphabet == {Ord_a, Ord_a + 8, Ord_0, Ord_0 + 1, Ord_0 + 9}
Tokens == UNION { [1 .. n -> Alphabet] : n \in 0 .. MaxTokenLen }

-----------------------------------------------------------------------------
(* The notation helpers.                                                   *)

is_valid(x_coord, y_coord) ==
    /\ 0 <= x_coord /\ x_coord < BoardSize
    /\ 0 <= y_coord /\ y_coord < BoardSize

\* The decimal digits of n >= 0, and str(n) of an integer.
RECURSIVE Digits(_)
Digits(n) == IF n < 10 THEN <<Ord_0 + n>>
             ELSE Digits(n \div 10) \o <<Ord_0 + (n % 10)>>
IntToStr(n) == IF n < 0 THEN <<Ord_minus>> \o Digits(-n) ELSE Digits(n)

\* f"{chr(y_coord + ord('a'))}{x_coord + 1}"
to_algebraic(x_coord, y_coord) ==
    <<y_coord + Ord_a>> \o IntToStr(x_coord + 1)

\* from_algebraic without the - 1 of the rank
from_algebraic_one_based(pos) ==
    IF Len(pos) < 2 THEN [raised |-> "IndexError", value |-> NoSquare]
    ELSE IF ~IsDigit(pos[2]) THEN [raised |-> "ValueError", value |-> NoSquare]
    ELSE [raised |-> "none", value |-> <<pos[2] - Ord_0, pos[1] - Ord_a>>]

\* int(pos[1]) - 1, ord(pos[0]) - ord('a'): pos[1] is evaluated first and
\* raises IndexError on a string shorter than two characters; int raises
\* ValueError on a character that is no digit.
from_algebraic(pos) ==
    IF Len(pos) < 2 THEN [raised |-> "IndexError", value |-> NoSquare]
    ELSE IF ~IsDigit(pos[2]) THEN [raised |-> "ValueError", value |-> NoSquare]
    ELSE [raised |-> "none",
          value |-> <<(pos[2] - Ord_0) - 1, pos[1] - Ord_a>>]

\* knight_moves with (2, 2) for its first move
knight_moves_typo == << <<2, 2>>, <<1, 2>>, <<-1, 2>>, <<-2, 1>>,
                        <<-2, -1>>, <<-1, -2>>, <<1, -2>>, <<2, -1>> >>

\* knight_moves with its first move written twice, the second missing
knight_moves_repeated == << <<2, 1>>, <<2, 1>>, <<-1, 2>>, <<-2, 1>>,
                            <<-2, -1>>, <<-1, -2>>, <<1, -2>>, <<2, -1>> >>

knight_moves == << <<2, 1>>, <<1, 2>>, <<-1, 2>>, <<-2, 1>>,
                   <<-2, -1>>, <<-1, -2>>, <<1, -2>>, <<2, -1>> >>

-----------------------------------------------------------------------------
(* find_shortest_paths: the pieces of the loop body.                       *)

\* the seed with an empty path
SeedQueueEmptyPath(s) == << [current |-> s, path |-> <<>>] >>

\* queue = deque([(start, [start])])
SeedQueue(s) == << [current |-> s, path |-> <<s>>] >>

\* the pruning test with >= for >
TooLongOrEqual(path, ml) == ml # Inf /\ Len(path) >= ml[1]

\* if len(path) > min_length: continue
TooLong(path, ml) == GtExt(Len(path), ml)

\* the test with < whatever relax is
AcceptStrict(len, best, relax) == LtExt(len, best)

\* The test that lets a neighbour in: len(path) + 1 <= visited[new_pos].
\* relax is TRUE in the program; FALSE gives the variant of the search that
\* compares with < instead.
Accept(len, best, relax) == IF relax THEN LeExt(len, best) ELSE LtExt(len, best)

\* the for loop appending (new_pos, path) instead of (new_pos, path + [new_pos])
RECURSIVE ExploreSamePath(_, _, _, _, _, _)
ExploreSamePath(i, current, path, q, vis, relax) ==
    IF i > Len(knight_moves) THEN [queue |-> q, visited |-> vis]
    ELSE LET new_pos == <<current[1] + knight_moves[i][1],
                          current[2] + knight_moves[i][2]>>
         IN IF /\ is_valid(new_pos[1], new_pos[2])
               /\ Accept(Len(path) + 1, Lookup(vis, new_pos), relax)
            THEN ExploreSamePath(i + 1, current, path,
                         Append(q, [current |-> new_pos, path |-> path]),
                         Store(vis, new_pos, Fin(Len(path) + 1)), relax)
            ELSE ExploreSamePath(i + 1, current, path, q, vis, relax)

\* The for loop over knight_moves from move number i on, with the queue q
\* and the mapping vis as they stand; gives the queue and mapping after it.
RECURSIVE Explore(_, _, _, _, _, _)
Explore(i, current, path, q, vis, relax) ==
    IF i > Len(knight_moves) THEN [queue |-> q, visited |-> vis]
    ELSE LET new_pos == <<current[1] + knight_moves[i][1],
                          current[2] + knight_moves[i][2]>>
         IN IF /\ is_valid(new_pos[1], new_pos[2])
               /\ Accept(Len(path) + 1, Lookup(vis, new_pos), relax)
            THEN Explore(i + 1, current, path,
                         Append(q, [current |-> new_pos,
                                    path |-> Append(path, new_pos)]),
                         Store(vis, new_pos, Fin(Len(path) + 1)), relax)
            ELSE Explore(i + 1, current, path, q, vis, relax)

\* the destination branch without min_length = len(path)
ReachEndKeepMin(path, sp, ml) ==
    IF LtExt(Len(path), ml)
    THEN [shortest_paths |-> <<path>>, min_length |-> ml]
    ELSE IF EqExt(Len(path), ml)
    THEN [shortest_paths |-> Append(sp, path), min_length |-> ml]
    ELSE [shortest_paths |-> sp, min_length |-> ml]

\* The destination branch: the result list and min_length after it.
ReachEnd(path, sp, ml) ==
    IF LtExt(Len(path), ml)
    THEN [shortest_paths |-> <<path>>, min_length |-> Fin(Len(path))]
    ELSE IF EqExt(Len(path), ml)
    THEN [shortest_paths |-> Append(sp, path), min_length |-> ml]
    ELSE [shortest_paths |-> sp, min_length |-> ml]

\* The while loop run to its end from the given queue, results, mapping and
\* min_length: what find_shortest_paths returns.
RECURSIVE RunLoop(_, _, _, _, _, _)
RunLoop(q, sp, vis, ml, e, relax) ==
    IF q = <<>> THEN sp
    ELSE IF TooLong(Head(q).path, ml) THEN RunLoop(Tail(q), sp, vis, ml, e, relax)
    ELSE IF Head(q).current = e
    THEN LET r == ReachEnd(Head(q).path, sp, ml)
         IN RunLoop(Tail(q), r.shortest_paths, vis, r.min_length, e, relax)
    ELSE LET r == Explore(1, Head(q).current, Head(q).path, Tail(q), vis, relax)
         IN RunLoop(r.queue, sp, r.visited, ml, e, relax)

\* find_shortest_paths as a function of its arguments (relax as in Accept).
find_shortest_paths(s, e, relax) ==
    RunLoop(SeedQueue(s), <<>>, EmptyDict, Inf, e, relax)

\* The paths of the entries of q from position n + 1 on.
NewPaths(q, n) == { q[i].path : i \in (n + 1) .. Len(q) }

-----------------------------------------------------------------------------
(* Initial states.                                                         *)

SearchIdle ==
    /\ pc = "idle"
    /\ start = NoSquare
    /\ end = NoSquare
    /\ queue = <<>>
    /\ shortest_paths = <<>>
    /\ visited = EmptyDict
    /\ min_length = Inf
    /\ placed = {}
    /\ n_placed = 0

MainIdle ==
    /\ main_pc = "none"
    /\ args_start = NoText
    /\ args_end = NoText
    /\ printed = <<>>

NotationIdle ==
    /\ n_pc = "none"
    /\ n_square = NoSquare
    /\ n_text = NoText
    /\ n_parsed = [raised |-> "none", value |-> NoSquare]

\* A KnightPathFinder has been constructed; nothing has been called.
Init == SearchIdle /\ MainIdle /\ NotationIdle

-----------------------------------------------------------------------------
(* find_shortest_paths: the actions.                                       *)

\* Entry: the four initialisations before the loop.
Enter(s, e) ==
    /\ start' = s
    /\ end' = e
    /\ queue' = SeedQueue(s)
    /\ shortest_paths' = <<>>
    /\ visited' = EmptyDict
    /\ min_length' = Inf
    /\ placed' = NewPaths(SeedQueue(s), 0)
    /\ n_placed' = Len(SeedQueue(s))
    /\ pc' = "loop"

\* A caller hands two board squares to find_shortest_paths.
Call ==
    /\ pc = "idle"
    /\ main_pc = "none"
    /\ n_pc = "none"
    /\ \E s \in StartSquares, e \in Board : Enter(s, e)
    /\ UNCHANGED <<mainVars, notationVars>>

\* The branches of an iteration (while queue: ... if ... continue).
ReturnCase == queue = <<>>
PruneCase == queue # <<>> /\ TooLong(Head(queue).path, min_length)
AtEndCase ==
    /\ queue # <<>>
    /\ ~TooLong(Head(queue).path, min_length)
    /\ Head(queue).current = end
ExpandCase ==
    /\ queue # <<>>
    /\ ~TooLong(Head(queue).path, min_length)
    /\ Head(queue).current # end

\* An iteration whose path is longer than min_length: continue.
Prune ==
    /\ pc = "loop"
    /\ PruneCase
    /\ queue' = Tail(queue)
    /\ UNCHANGED <<pc, start, end, shortest_paths, visited, min_length,
                   placed, n_placed, mainVars, notationVars>>

\* An iteration that dequeues the destination.
AtEnd ==
    /\ pc = "loop"
    /\ AtEndCase
    /\ LET r == ReachEnd(Head(queue).path, shortest_paths, min_length)
       IN /\ shortest_paths' = r.shortest_paths
          /\ min_length' = r.min_length
    /\ queue' = Tail(queue)
    /\ UNCHANGED <<pc, start, end, visited, placed, n_placed,
                   mainVars, notationVars>>

\* An iteration that explores the neighbours of the dequeued square.
Expand ==
    /\ pc = "loop"
    /\ ExpandCase
    /\ LET r == Explore(1, Head(queue).current, Head(queue).path,
                        Tail(queue), visited, TRUE)
       IN /\ queue' = r.queue
          /\ visited' = r.visited
          /\ placed' = placed \cup NewPaths(r.queue, Len(queue) - 1)
          /\ n_placed' = n_placed + Len(r.queue) - (Len(queue) - 1)
    /\ UNCHANGED <<pc, start, end, shortest_paths, min_length,
                   mainVars, notationVars>>

\* The queue is empty: return shortest_paths.
Return ==
    /\ pc = "loop"
    /\ ReturnCase
    /\ pc' = "returned"
    /\ UNCHANGED <<start, end, queue, shortest_paths, visited, min_length,
                   placed, n_placed, mainVars, notationVars>>

Next == Call \/ Prune \/ AtEnd \/ Expand \/ Return

Spec == Init /\ [][Next]_vars

-----------------------------------------------------------------------------
(* main: from the two position strings to the printed paths.               *)

\* args.start and args.end are whatever the flags, the config file or the
\* prompts gave.
InitMain ==
    /\ SearchIdle
    /\ NotationIdle
    /\ main_pc = "validate"
    /\ args_start \in Tokens
    /\ args_end \in Tokens
    /\ printed = <<>>

\* try: start = from_algebraic(args.start); end = from_algebraic(args.end)
\* except (IndexError, ValueError): log the error and return
MainValidate ==
    /\ main_pc = "validate"
    /\ LET s == from_algebraic(args_start)
           e == from_algebraic(args_end)
       IN IF s.raised # "none" \/ e.raised # "none"
          THEN /\ main_pc' = "invalid"
               /\ UNCHANGED <<start, end>>
          ELSE /\ main_pc' = "find"
               /\ start' = s.value
               /\ end' = e.value
    /\ UNCHANGED <<pc, queue, shortest_paths, visited, min_length, placed,
                   n_placed, args_start, args_end, printed, notationVars>>

\* shortest_paths = pathfinder.find_shortest_paths(start, end)
MainFind ==
    /\ main_pc = "find"
    /\ pc = "idle"
    /\ Enter(start, end)
    /\ main_pc' = "report"
    /\ UNCHANGED <<args_start, args_end, printed, notationVars>>

\* for path in shortest_paths: print the to_algebraic of its squares
MainReport ==
    /\ main_pc = "report"
    /\ pc = "returned"
    /\ printed' = [i \in DOMAIN shortest_paths |->
                     [j \in DOMAIN shortest_paths[i] |->
                        to_algebraic(shortest_paths[i][j][1],
                                     shortest_paths[i][j][2])]]
    /\ main_pc' = "done"
    /\ UNCHANGED <<searchVars, args_start, args_end, notationVars>>

NextMain == MainValidate \/ MainFind \/ Prune \/ AtEnd \/ Expand \/ Return
            \/ MainReport

SpecMain == InitMain /\ [][NextMain]_vars

-----------------------------------------------------------------------------
(* The notation round trip.                                                *)

InitNotation ==
    /\ SearchIdle
    /\ MainIdle
    /\ n_pc = "square"
    /\ n_square \in (-NotationMargin .. BoardSize - 1 + NotationMargin)
                    \X (-NotationMargin .. BoardSize - 1 + NotationMargin)
    /\ n_text = NoText
    /\ n_parsed = [raised |-> "none", value |-> NoSquare]

ToAlgebraic ==
    /\ n_pc = "square"
    /\ n_text' = to_algebraic(n_square[1], n_square[2])
    /\ n_pc' = "text"
    /\ UNCHANGED <<searchVars, mainVars, n_square, n_parsed>>

FromAlgebraic ==
    /\ n_pc = "text"
    /\ n_parsed' = from_algebraic(n_text)
    /\ n_pc' = "parsed"
    /\ UNCHANGED <<searchVars, mainVars, n_square, n_text>>

NextNotation == ToAlgebraic \/ FromAlgebraic

SpecNotation == InitNotation /\ [][NextNotation]_vars

-----------------------------------------------------------------------------
(* Reference definitions the properties are stated with. They are written  *)
(* from the rules of the knight's move, not from the search.               *)

Abs(n) == IF n < 0 THEN -n ELSE n

\* b is one knight move away from a: one coordinate differs by 1, the other by 2
IsKnightMove(a, b) == {Abs(a[1] - b[1]), Abs(a[2] - b[2])} = {1, 2}

Neighbours(sq) == { n \in Board : IsKnightMove(sq, n) }

\* The squares within k moves of s.
RECURSIVE Ball(_, _)
Ball(s, k) ==
    IF k = 0 THEN {s}
    ELSE LET b == Ball(s, k - 1) IN b \cup UNION { Neighbours(x) : x \in b }

\* The number of moves from the squares of ball (all within k moves of the
\* origin) to e, or -1 when e cannot be reached.
RECURSIVE MovesTo(_, _, _)
MovesTo(ball, e, k) ==
    IF e \in ball THEN k
    ELSE LET grown == ball \cup UNION { Neighbours(x) : x \in ball }
         IN IF grown = ball THEN -1 ELSE MovesTo(grown, e, k + 1)

Distance(s, e) == MovesTo({s}, e, 0)

\* The walks of k moves from s whose last square is within d - k moves of e:
\* every walk of d moves from s to e has such prefixes.
RECURSIVE Walks(_, _, _, _)
Walks(s, e, d, k) ==
    IF k = 0 THEN {<<s>>}
    ELSE LET near == Ball(e, d - k)
         IN UNION { { Append(w, n) : n \in Neighbours(w[Len(w)]) \cap near } :
                    w \in Walks(s, e, d, k - 1) }

\* Every path from s to e with the least number of moves.
AllShortestPaths(s, e) ==
    LET d == Distance(s, e) IN IF d < 0 THEN {} ELSE Walks(s, e, d, d)

Range(f) == { f[i] : i \in DOMAIN f }
Last(p) == p[Len(p)]
Min(S) == CHOOSE m \in S : \A n \in S : m <= n

\* No path of distinct squares is longer than the board has squares; the
\* search adds at most one square to such a path.
MaxPathLen == BoardSize * BoardSize + 1

\* The number of entries of q whose path has len squares.
CountOfLen(q, len) == Cardinality({ i \in DOMAIN q : Len(q[i].path) = len })

\* A position string of the board: a file letter a..h and a rank digit 1..8.
WellFormed(tok) ==
    /\ Len(tok) = 2
    /\ Ord_a <= tok[1] /\ tok[1] < Ord_a + BoardSize
    /\ Ord_0 + 1 <= tok[2] /\ tok[2] <= Ord_0 + BoardSize

-----------------------------------------------------------------------------
(* The properties.                                                         *)

\* C1: for board squares start and end, the paths find_shortest_paths returns
\* are exactly the minimum-length knight paths from start to end.
C1_ReturnsAllShortestPaths ==
    (pc = "returned" /\ start \in Board /\ end \in Board)
        => Range(shortest_paths) = AllShortestPaths(start, end)

\* C1 witness: a search between two different squares has returned several paths.
C1_Witness ==
    /\ pc = "returned"
    /\ start \in Board /\ end \in Board
    /\ start # end
    /\ Len(shortest_paths) >= 2

\* C2: from_algebraic fails for every string that is not a file letter a..h
\* followed by a rank 1..8, so main only goes on with well-formed strings and
\* never hands find_shortest_paths a square off the board.
C2_MalformedPositionsRejected ==
    /\ main_pc \in {"find", "report", "done"}
          => WellFormed(args_start) /\ WellFormed(args_end)
    /\ (main_pc \in {"report", "done"} /\ pc # "idle")
          => start \in Board /\ end \in Board

\* C3: for board squares start and end, every returned path begins at start,
\* ends at end, moves by knight moves only and stays on the board.
C3_PathsAreKnightPaths ==
    (pc = "returned" /\ start \in Board /\ end \in Board)
        => \A i \in DOMAIN shortest_paths :
              LET p == shortest_paths[i]
              IN /\ Len(p) >= 1
                 /\ p[1] = start
                 /\ p[Len(p)] = end
                 /\ \A j \in 1 .. Len(p) : p[j] \in Board
                 /\ \A j \in 1 .. Len(p) - 1 : IsKnightMove(p[j], p[j + 1])

\* C3 witness: a returned path of at least two moves.
C3_Witness ==
    /\ pc = "returned"
    /\ start \in Board /\ end \in Board
    /\ \E i \in DOMAIN shortest_paths : Len(shortest_paths[i]) >= 3

\* C4: find_shortest_paths(s, s) returns the one path [s].
C4_SameSquareOnePath ==
    (pc = "returned" /\ start \in Board /\ start = end)
        => shortest_paths = << <<start>> >>

\* C4 witness: a search from a square to itself has returned.
C4_Witness == pc = "returned" /\ start \in Board /\ start = end

\* C5: at every moment of the search every path in shortest_paths has length
\* min_length.
C5_ResultsHaveMinLength ==
    \A i \in DOMAIN shortest_paths : EqExt(Len(shortest_paths[i]), min_length)

\* C5 witness: the loop is running with two paths collected.
C5_Witness == pc = "loop" /\ Len(shortest_paths) >= 2

\* C6: no two entries ever placed in the queue carry the same path, and the
\* returned list has no duplicate.
C6_NoDuplicatePaths ==
    /\ Cardinality(placed) = n_placed
    /\ pc = "returned" => Cardinality(Range(shortest_paths)) = Len(shortest_paths)

\* C6 witness: a search has returned several paths after placing some square
\* in the queue twice with paths of the same length.
C6_Witness ==
    /\ pc = "returned"
    /\ Len(shortest_paths) >= 2
    /\ \E p \in placed : \E q \in placed :
          p # q /\ Last(p) = Last(q) /\ Len(p) = Len(q)

\* C7: from (0,0) to (2,2) the search returns more than one path, each of 4
\* moves, and the variant comparing with < returns a proper subset of them.
C7_RelaxationExercised ==
    (pc = "returned" /\ start = <<0, 0>> /\ end = <<2, 2>>)
        => LET strict == find_shortest_paths(start, end, FALSE)
           IN /\ Len(shortest_paths) > 1
              /\ \A i \in DOMAIN shortest_paths : Len(shortest_paths[i]) = 5
              /\ Range(strict) \subseteq Range(shortest_paths)
              /\ Range(strict) # Range(shortest_paths)
              /\ Len(strict) < Len(shortest_paths)

\* C7 witness: the search from (0,0) to (2,2) has returned.
C7_Witness == pc = "returned" /\ start = <<0, 0>> /\ end = <<2, 2>>

\* C8: for a board square, from_algebraic of its to_algebraic is the square.
C8_RoundTrip ==
    (n_pc = "parsed" /\ n_square \in Board)
        => n_parsed = [raised |-> "none", value |-> n_square]

\* C8 witness: the round trip of a board square has been made.
C8_Witness == n_pc = "parsed" /\ n_square \in Board /\ n_text # NoText

\* C9: the loop terminates. While it runs one of its branches can be taken; no
\* path in the queue is longer than MaxPathLen; the dequeued entry is a shortest one
\* of the queue and an iteration leaves fewer entries of its length, adding
\* only longer ones. So the numbers of entries of length 1, 2, ..., MaxPathLen
\* decrease in the lexicographic order at every iteration, which cannot go on
\* for ever: the queue empties and the results are returned.
C9_Terminates ==
    /\ [](pc = "loop" =>
            /\ ReturnCase \/ PruneCase \/ AtEndCase \/ ExpandCase
            /\ \A i \in DOMAIN queue : Len(queue[i].path) <= MaxPathLen)
    /\ [][pc = "loop" =>
            \/ queue = <<>> /\ pc' = "returned"
            \/ /\ queue # <<>>
               /\ pc' = "loop"
               /\ LET len == Len(Head(queue).path)
                  IN /\ \A i \in DOMAIN queue : Len(queue[i].path) >= len
                     /\ \A i \in DOMAIN queue' : Len(queue'[i].path) >= len
                     /\ CountOfLen(queue', len) < CountOfLen(queue, len)]_vars

\* C9 witness: a search has returned after placing more entries in the queue
\* than there are squares in them.
C9_Witness ==
    /\ pc = "returned"
    /\ n_placed > Cardinality({ Last(p) : p \in placed })

\* C10: every square placed in the queue so far, the seeded start included,
\* has in visited the least length it was placed with; the others have inf.
C10_VisitedIsLeastPlaced ==
    pc # "idle" =>
        \A sq \in Board \cup {start} :
            LET lens == { Len(p) : p \in { q \in placed : Last(q) = sq } }
            IN Lookup(visited, sq) = IF lens = {} THEN Inf ELSE Fin(Min(lens))

=============================================================================
